---- MODULE Spec2Model ----
(***************************************************************************)
(* Spotlight editor (src/src/App.tsx): the spotlight list held by the App  *)
(* component and the handlers that mutate it.                              *)
(*                                                                         *)
(* Numbers.  x, y, width, height, rotation and blurIntensity are integers  *)
(* in every state the handlers produce (the callers apply Math.round).     *)
(* fillOpacity and opacity are kept in hundredths (0.3 is 30).  A raw      *)
(* slider reading is kept in halves (119.5 is 239) so that the widget's    *)
(* clamp and the caller's Math.round are both computed.                    *)
(***************************************************************************)
EXTENDS Integers, Sequences, FiniteSets, TLC

\* spotlights : the list held by useState, in list order
\* prev       : the list the last recorded handler call ran on
\* lastOp     : the last recorded handler call: its name and arguments; the
\*              handlers of the list and of the menu are recorded, except
\*              in SpecShapes
\* removed    : the ids removeSpotlight has taken out of the list (SpecIds, SpecUI)
\* background : the background configuration held by useState
\* blendMode  : the render mode held by useState
\* menuOpenId : the id whose duplicate menu is open, Null when none is
VARIABLES spotlights, prev, lastOp, removed, background, blendMode, menuOpenId

vars == <<spotlights, prev, lastOp, removed, background, blendMode, menuOpenId>>

\* ------------------------------------------------------------------ bounds
\* a run holds at most MaxSpots spotlights and gives out no id above MaxId
MaxSpots == 3
MaxId == 4

\* ------------------------------------------------------- program constants
\* clamp(100 - s.x, -20, 120) in mirrorDuplicateSpotlight
MirrorAxis == 100
MirrorMin == -20
MirrorMax == 120
\* x: spotlight.x + 10, y: spotlight.y + 10 in duplicateSpotlight
DuplicateOffset == 10
\* min and max of the X Position slider
XSliderMin == -20
XSliderMax == 120

\* ---------------------------------------------------------------- helpers
Ids(list) == {list[i].id : i \in DOMAIN list}

\* Math.max over a non-empty set of numbers
SetMax(S) == CHOOSE m \in S : \A v \in S : v <= m

\* Math.max(...spotlights.map((s) => s.id)) on a non-empty list
MaxIdOf(list) == SetMax(Ids(list))

\* spotlights.find((s) => s.id === id): index of the first match, 0 if none
FindIndex(list, id) ==
  IF \E i \in DOMAIN list : list[i].id = id
  THEN CHOOSE i \in DOMAIN list :
         /\ list[i].id = id
         /\ \A j \in DOMAIN list : list[j].id = id => i <= j
  ELSE 0

\* const clamp = (v, min, max) => Math.min(max, Math.max(min, v))
clamp(v, min, max) ==
  LET lo == IF v > min THEN v ELSE min
  IN IF lo < max THEN lo ELSE max

\* Math.round on a value given in halves: rounds half up
MathRound(h) == (h + 1) \div 2

\* Slider: onChange(clamp(parseFloat(value))) followed by the caller's
\* Math.round; h is the raw reading in halves
sliderValue(h, min, max) == MathRound(clamp(h, 2 * min, 2 * max))

\* ------------------------------------------------------------ initial list
InitialSpotlights ==
  << [id |-> 1, source |-> "color", fill |-> "#ffffff", fillOpacity |-> 40,
      blurIntensity |-> 120, width |-> 600, height |-> 600, x |-> 10, y |-> 10,
      rotation |-> 0, opacity |-> 80,
      gradientClass |-> "bg-gradient-to-br from-white/70 to-white/0",
      cssText |-> "", flipX |-> FALSE],
     [id |-> 2, source |-> "color", fill |-> "#ffffff", fillOpacity |-> 30,
      blurIntensity |-> 140, width |-> 500, height |-> 500, x |-> 75, y |-> 20,
      rotation |-> 45, opacity |-> 60,
      gradientClass |-> "bg-gradient-to-br from-white/60 to-white/0",
      cssText |-> "", flipX |-> FALSE] >>

\* ------------------------------------------------- pure list transformers
\* newId of addSpotlight
addNewId(list) == (IF Len(list) # 0 THEN MaxIdOf(list) ELSE 0) + 1

\* variant: the new id taken from the length of the list
copyNewIdByLength(list) == Len(list) + 1

\* newId of duplicateSpotlight and mirrorDuplicateSpotlight
copyNewId(list) == MaxIdOf(list) + 1

\* variant: the defaults of the first initial spotlight
newSpotlightAsFirst(newId) == [InitialSpotlights[1] EXCEPT !.id = newId]

\* the object literal appended by addSpotlight
newSpotlight(newId) ==
  [id |-> newId, source |-> "color", fill |-> "#ffffff", fillOpacity |-> 30,
   blurIntensity |-> 151, width |-> 400, height |-> 400, x |-> 50, y |-> 50,
   rotation |-> 0, opacity |-> 70,
   gradientClass |-> "bg-gradient-to-br from-white/70 to-white/0",
   cssText |-> "", flipX |-> FALSE]

addResult(list) == Append(list, newSpotlight(addNewId(list)))

\* variant: only x is offset
duplicatedXOnly(s, newId) ==
  [s EXCEPT !.id = newId, !.x = s.x + DuplicateOffset]

\* { ...spotlight, id: newId, x: spotlight.x + 10, y: spotlight.y + 10 }
duplicated(s, newId) ==
  [s EXCEPT !.id = newId, !.x = s.x + DuplicateOffset, !.y = s.y + DuplicateOffset]

duplicateResult(list, id) ==
  LET i == FindIndex(list, id)
  IN IF i # 0 THEN Append(list, duplicated(list[i], copyNewId(list)))
     ELSE list

\* variant: flipX is copied, not negated
mirroredKeepFlip(s, newId) ==
  [s EXCEPT !.id = newId, !.x = clamp(MirrorAxis - s.x, MirrorMin, MirrorMax)]

\* variant: the mirrored x is not clamped
mirroredUnclamped(s, newId) ==
  [s EXCEPT !.id = newId, !.x = MirrorAxis - s.x, !.flipX = ~s.flipX]

\* { ...s, id: newId, x: mirroredX, flipX: !s.flipX }
mirrored(s, newId) ==
  [s EXCEPT !.id = newId,
            !.x = clamp(MirrorAxis - s.x, MirrorMin, MirrorMax),
            !.flipX = ~s.flipX]

\* variant: a missing id falls back to the last spotlight
mirrorResultFallback(list, id) ==
  LET i == FindIndex(list, id)
  IN Append(list, mirrored(list[IF i = 0 THEN Len(list) ELSE i], copyNewId(list)))

mirrorResult(list, id) ==
  LET i == FindIndex(list, id)
  IN IF i = 0 THEN list
     ELSE Append(list, mirrored(list[i], copyNewId(list)))

\* variant: no length test
removeResultUnguarded(list, id) == SelectSeq(list, LAMBDA s : s.id # id)

\* variant: the filter keeps the entries whose id is below the given id
removeResultFrom(list, id) ==
  IF Len(list) > 1 THEN SelectSeq(list, LAMBDA s : s.id < id) ELSE list

\* if (spotlights.length > 1) setSpotlights(spotlights.filter((s) => s.id !== id))
removeResult(list, id) ==
  IF Len(list) > 1 THEN SelectSeq(list, LAMBDA s : s.id # id) ELSE list

\* variant: every entry is updated
updateResultAll(list, id, key, value) ==
  [i \in DOMAIN list |-> [list[i] EXCEPT ![key] = value]]

\* prev.map((s) => (s.id === id ? { ...s, [key]: value } : s))
updateResult(list, id, key, value) ==
  [i \in DOMAIN list |->
     IF list[i].id = id THEN [list[i] EXCEPT ![key] = value] ELSE list[i]]

\* ------------------------------------------------------------------- text
\* A text is a TLA+ string; CharAt(s, i) is its i-th character as a text.
CharAt(s, i) == SubSeq(s, i, i)

LowerLetters == "abcdefghijklmnopqrstuvwxyz"
UpperLetters == "ABCDEFGHIJKLMNOPQRSTUVWXYZ"

\* s.indexOf(c) + 1 for a character c: its first position in s, 0 if none
IndexOf(s, c) ==
  LET hits == {i \in 1 .. Len(s) : CharAt(s, i) = c}
  IN IF hits = {} THEN 0 ELSE CHOOSE i \in hits : \A j \in hits : i <= j

\* the upper-case letter of every lower-case one, and the other way round
UpperOf ==
  [c \in {CharAt(LowerLetters, i) : i \in 1 .. Len(LowerLetters)} |->
     CharAt(UpperLetters, IndexOf(LowerLetters, c))]

LowerOf ==
  [c \in {CharAt(UpperLetters, i) : i \in 1 .. Len(UpperLetters)} |->
     CharAt(LowerLetters, IndexOf(UpperLetters, c))]

\* c.toUpperCase() on one character
toUpperCase(c) == IF c \in DOMAIN UpperOf THEN UpperOf[c] ELSE c

\* the lower-case form of one character (the i flag of /!important/gi)
toLowerChar(c) == IF c \in DOMAIN LowerOf THEN LowerOf[c] ELSE c

RECURSIVE toLowerCase(_)
toLowerCase(s) ==
  IF s = "" THEN "" ELSE toLowerChar(Head(s)) \o toLowerCase(Tail(s))

\* the white space String.prototype.trim removes, as far as the inputs use it
WhiteSpace == {" ", "\n", "\t"}

\* the first position from i on that holds no white space
RECURSIVE trimStart(_, _)
trimStart(s, i) ==
  IF i <= Len(s) /\ CharAt(s, i) \in WhiteSpace THEN trimStart(s, i + 1) ELSE i

\* the last position up to i that holds no white space
RECURSIVE trimEnd(_, _)
trimEnd(s, i) ==
  IF i >= 1 /\ CharAt(s, i) \in WhiteSpace THEN trimEnd(s, i - 1) ELSE i

\* s.trim()
trim(s) == SubSeq(s, trimStart(s, 1), trimEnd(s, Len(s)))

\* s.split(sep) for a one-character separator: the pieces between the
\* separators, in order; a text without separator is its only piece
RECURSIVE split(_, _)
split(s, sep) ==
  LET i == IndexOf(s, sep)
  IN IF i = 0 THEN <<s>>
     ELSE <<SubSeq(s, 1, i - 1)>> \o split(SubSeq(s, i + 1, Len(s)), sep)

\* parts.join(sep)
RECURSIVE join(_, _)
join(parts, sep) ==
  IF Len(parts) = 0 THEN ""
  ELSE IF Len(parts) = 1 THEN parts[1]
  ELSE parts[1] \o sep \o join(Tail(parts), sep)

\* String(n) for an integer n
RECURSIVE Digits(_)
Digits(n) ==
  IF n < 10 THEN CharAt("0123456789", n + 1)
  ELSE Digits(n \div 10) \o CharAt("0123456789", (n % 10) + 1)

Decimal(n) == IF n < 0 THEN "-" \o Digits(0 - n) ELSE Digits(n)

\* String(v) for the number v kept in hundredths: 80 is "0.8", 5 is "0.05"
Hundredths(h) ==
  LET whole == h \div 100
      frac == h % 100
  IN IF frac = 0 THEN Decimal(whole)
     ELSE IF frac % 10 = 0 THEN Decimal(whole) \o "." \o Digits(frac \div 10)
     ELSE Decimal(whole) \o "." \o Digits(frac \div 10) \o Digits(frac % 10)

\* ---------------------------------------------------------------- objects
\* A JavaScript object is a function from its own keys to their values.
EmptyObject == [k \in {} |-> ""]

\* what reading a key the object does not have gives
Undefined == "<undefined>"

\* obj[key]
Get(obj, key) == IF key \in DOMAIN obj THEN obj[key] ELSE Undefined

\* { ...obj, [key]: val }
Put(obj, key, val) ==
  [k \in DOMAIN obj \cup {key} |-> IF k = key THEN val ELSE obj[k]]

\* delete obj[key]
Delete(obj, key) == [k \in DOMAIN obj \ {key} |-> obj[k]]

\* { ...under, ...over }
Merge(under, over) ==
  [k \in DOMAIN under \cup DOMAIN over |->
     IF k \in DOMAIN over THEN over[k] ELSE under[k]]

\* ------------------------------------------------------------ parseInlineCss
\* k.replace(/-([a-z])/g, (_, c) => c.toUpperCase())
\* the text up to the next '-', then the match replaced or the '-' kept
RECURSIVE camelCase(_)
camelCase(s) ==
  LET i == IndexOf(s, "-")
  IN IF i = 0 THEN s
     ELSE IF i < Len(s) /\ CharAt(s, i + 1) \in DOMAIN UpperOf
     THEN SubSeq(s, 1, i - 1) \o toUpperCase(CharAt(s, i + 1))
          \o camelCase(SubSeq(s, i + 2, Len(s)))
     ELSE SubSeq(s, 1, i) \o camelCase(SubSeq(s, i + 1, Len(s)))

Important == "!important"

\* v.replace(/!important/gi, "")
\* the text up to the next '!', then the match dropped or the '!' kept
RECURSIVE removeImportant(_)
removeImportant(s) ==
  LET i == IndexOf(s, Head(Important))
      end == i + Len(Important) - 1
  IN IF i = 0 THEN s
     ELSE IF end <= Len(s) /\ toLowerCase(SubSeq(s, i, end)) = Important
     THEN SubSeq(s, 1, i - 1) \o removeImportant(SubSeq(s, end + 1, Len(s)))
     ELSE SubSeq(s, 1, i) \o removeImportant(SubSeq(s, i + 1, Len(s)))

\* style[key] = val that leaves a key the object already has untouched
assignOnce(style, key, val) ==
  IF key = "__proto__" \/ key \in DOMAIN style THEN style ELSE Put(style, key, val)

\* style[key] = val on a plain object: assigning a string to __proto__ is
\* ignored by the prototype setter and creates no own property
assign(style, key, val) ==
  IF key = "__proto__" THEN style ELSE Put(style, key, val)

\* the body of the forEach callback, run on one piece of the input
declaration(style, raw) ==
  LET parts == split(raw, ":")
      k == parts[1]
      rest == Tail(parts)
  IN IF k = "" \/ Len(rest) = 0 THEN style
     ELSE LET key == camelCase(trim(k))
              val == trim(removeImportant(join(rest, ":")))
          IN IF key = "" \/ val = "" THEN style ELSE assign(style, key, val)

RECURSIVE declarations(_, _)
declarations(style, raws) ==
  IF Len(raws) = 0 THEN style
  ELSE declarations(declaration(style, raws[1]), Tail(raws))

parseInlineCss(text) ==
  LET input == IF text = Undefined \/ text = "" THEN "" ELSE text
  IN declarations(EmptyObject, split(input, ";"))

\* -------------------------------------------------------------- background
InitialBackground ==
  [type |-> "gradient", color |-> "#10b981",
   tailwindClass |-> "bg-gradient-to-br from-emerald-400 via-green-500 to-emerald-600"]

\* the value of each preset button
backgroundPresets ==
  [Emerald |-> InitialBackground,
   Dark |-> [type |-> "dark"],
   Light |-> [type |-> "light"],
   Transparent |-> [type |-> "transparent"]]

\* the options of the Mode select
BackgroundTypes ==
  {"gradient", "customTailwind", "customCss", "solid", "dark", "light", "transparent"}

previewBgStyle(bg) ==
  CASE bg.type = "gradient" ->
         [background |-> "linear-gradient(135deg, #34d399, #10b981, #059669)"]
    [] bg.type = "solid" -> [backgroundColor |-> Get(bg, "color")]
    [] bg.type = "dark" -> [backgroundColor |-> "#111827"]
    [] bg.type = "light" -> [backgroundColor |-> "#f8fafc"]
    [] bg.type = "transparent" -> [backgroundColor |-> "transparent"]
    [] bg.type = "customTailwind" -> EmptyObject
    [] bg.type = "customCss" ->
         Delete(parseInlineCss(Get(bg, "cssText")), "minHeight")
    [] OTHER -> [backgroundColor |-> "#f8fafc"]

\* ------------------------------------------------------------------ shapes
\* the options of the Fill Source select
Sources == {"color", "tailwind", "css"}

\* `filter-${s.id}`
filterId(s) == "filter-" \o Decimal(s.id)

\* the transform with the mirror written after the rotation
transformRotateFirst(s) ==
  "translate(-50%, -50%) " \o "rotate(" \o Decimal(s.rotation) \o "deg)"
  \o (IF s.flipX THEN " scaleX(-1)" ELSE "")

\* `translate(-50%, -50%) ${s.flipX ? 'scaleX(-1) ' : ''}rotate(${s.rotation}deg)`
transform(s) ==
  "translate(-50%, -50%) " \o (IF s.flipX THEN "scaleX(-1) " ELSE "")
  \o "rotate(" \o Decimal(s.rotation) \o "deg)"

\* the style entries the three branches of the render share
baseStyle(s) ==
  [width |-> Decimal(s.width) \o "px",
   height |-> Decimal(s.height) \o "px",
   left |-> Decimal(s.x) \o "%",
   top |-> Decimal(s.y) \o "%",
   transform |-> transform(s),
   opacity |-> Hundredths(s.opacity),
   zIndex |-> "1"]

\* the blend entry set in both modes
blendStyleAlways(mode) == [mixBlendMode |-> "screen"]

\* ...(blendMode === "blend" ? { mixBlendMode: "screen" } : {})
blendStyle(mode) ==
  IF mode = "blend" THEN [mixBlendMode |-> "screen"] ELSE EmptyObject

\* `blur(${s.blurIntensity}px)`
blurFilter(s) == "blur(" \o Decimal(s.blurIntensity) \o "px)"

\* the style of the two div branches before the user's CSS
computedStyle(s, mode) ==
  Merge(Put(baseStyle(s), "filter", blurFilter(s)), blendStyle(mode))

\* the css branch with the user's CSS spread first, under the computed style
cssStyleUnder(s, mode) == Merge(parseInlineCss(s.cssText), computedStyle(s, mode))

\* the style of the css branch: ...parseInlineCss(s.cssText) comes last
cssStyle(s, mode) == Merge(computedStyle(s, mode), parseInlineCss(s.cssText))

\* the style the Spotlight component puts on its svg element
svgStyle(s, mode) ==
  Put(Merge(baseStyle(s), blendStyle(mode)), "position", "absolute")

\* what the callback of spotlights.map renders for the spotlight s
renderItem(s, mode) ==
  IF s.source = "tailwind"
  THEN [element |-> "div", key |-> "g-" \o Decimal(s.id),
        className |-> "absolute pointer-events-none rounded-full " \o s.gradientClass,
        style |-> computedStyle(s, mode)]
  ELSE IF s.source = "css"
  THEN [element |-> "div", key |-> "c-" \o Decimal(s.id),
        className |-> "absolute pointer-events-none rounded-full",
        style |-> cssStyle(s, mode)]
  ELSE [element |-> "svg", key |-> Decimal(s.id),
        fill |-> s.fill, filterId |-> filterId(s),
        fillOpacity |-> Hundredths(s.fillOpacity),
        blurIntensity |-> Decimal(s.blurIntensity),
        style |-> svgStyle(s, mode)]

\* spotlights.map with the filter id taken from the position in the list
shapesByPosition(list, mode) ==
  [i \in DOMAIN list |->
     IF list[i].source = "color"
     THEN [renderItem(list[i], mode) EXCEPT !.filterId = "filter-" \o Decimal(i)]
     ELSE renderItem(list[i], mode)]

\* spotlights.map((s) => ...): the shapes of the preview, in list order
shapes(list, mode) == [i \in DOMAIN list |-> renderItem(list[i], mode)]

\* ----------------------------------------------------------- generatedCode
\* U+2022 BULLET, which starts the three lines of tips, in ASCII
Bullet == "*"

\* a template that writes the number of spotlights and the mode into line 2
codeLinesLive(list, bg, mode) ==
  <<"// SVG Spotlight Component",
    "// " \o Decimal(Len(list)) \o " lights, " \o mode>>

\* the lines the useMemo callback pushes; the callback is a closure of App
\* and has spotlights, background and blendMode in scope
codeLines(list, bg, mode) ==
  <<"// SVG Spotlight Component",
    "// Copy and paste this component into your React project",
    "",
    "import React from 'react'",
    "",
    "type SpotlightProps = {",
    "  className?: string",
    "  fill: string",
    "  filterId: string",
    "  fillOpacity: number",
    "  blurIntensity: number",
    "  style?: React.CSSProperties",
    "}",
    "",
    "export const Spotlight: React.FC<SpotlightProps> = ({ className, fill, filterId, fillOpacity, blurIntensity, style }) => (",
    "  <svg className={\"pointer-events-none absolute \" + (className || \"\")} style={{ ...style, position: \"absolute\" }} xmlns=\"http://www.w3.org/2000/svg\" viewBox=\"0 0 3787 2842\" fill=\"none\" aria-hidden>",
    "    <g filter={\"url(#\" + filterId + \")\"}>",
    "      <ellipse cx=\"1924.71\" cy=\"273.501\" rx=\"1924.71\" ry=\"273.501\" transform=\"matrix(-0.822377 -0.568943 -0.568943 0.822377 3631.88 2291.09)\" fill={fill} fillOpacity={fillOpacity} />",
    "    </g>",
    "    <defs>",
    "      <filter id={filterId} x=\"0.860352\" y=\"0.838989\" width=\"3785.16\" height=\"2840.26\" filterUnits=\"userSpaceOnUse\" colorInterpolationFilters=\"sRGB\">",
    "        <feFlood floodOpacity=\"0\" result=\"BackgroundImageFix\" />",
    "        <feBlend mode=\"normal\" in=\"SourceGraphic\" in2=\"BackgroundImageFix\" result=\"shape\" />",
    "        <feGaussianBlur stdDeviation={blurIntensity} result=\"effect1_foregroundBlur_1065_8\" />",
    "      </filter>",
    "    </defs>",
    "  </svg>",
    ")",
    "",
    "/*",
    "Quick start:",
    "1) Copy the component above into your project (e.g. Spotlight.tsx).",
    "2) Place it inside a container with position: relative.",
    "3) Give each light a unique filterId (e.g. 'spot-1', 'spot-2').",
    "4) Control size and position with the style prop (width/height/left/top/transform).",
    "",
    "Tips:",
    Bullet \o " Start with blurIntensity 120..220 for a soft glow.",
    Bullet \o " Use fillOpacity 0.2..0.6 for gentle light.",
    Bullet \o " Keep filterId unique per Spotlight.",
    "*/">>

\* the value of the useMemo callback run in the given state
generateCode(list, bg, mode) == join(codeLines(list, bg, mode), "\n")

\* useMemo(..., []): the callback ran once, on the first render
generatedCode == generateCode(InitialSpotlights, InitialBackground, "absolute")

\* ------------------------------------------------------------------ inputs
\* the smallest positive id that no spotlight of the list has: the id of a
\* removed spotlight when there is a gap, else the next id to be given out
MissingId(list) ==
  CHOOSE k \in 1 .. (Len(list) + 1) :
    /\ k \notin Ids(list)
    /\ \A j \in 1 .. (k - 1) : j \in Ids(list)

\* id arguments: the id of every spotlight, and one that no spotlight has
IdArgs == Ids(spotlights) \cup {MissingId(spotlights)}

\* raw readings of the X Position slider, in halves (119.5 and 130)
RawX == {239, 260}

\* (key, value) pairs the X Position control passes to updateSpotlight
UpdateInputs == {<<"x", sliderValue(h, XSliderMin, XSliderMax)>> : h \in RawX}

\* (key, value) pairs of the Fill Source select, the Custom CSS textarea and
\* the Opacity and Rotation sliders, next to those of X Position
ControlInputs ==
  UpdateInputs \cup
  {<<"source", "css">>, <<"cssText", "background: red;">>,
   <<"opacity", 5>>, <<"rotation", 360>>}

NoOp == [op |-> "init", id |-> 0, key |-> "", value |-> 0, origin |-> 0]

\* the value the color picker of the Solid Color mode hands over
BackgroundColors == {"#ff0000"}

\* what is typed into the Tailwind Classes field
TailwindClasses == {"bg-gradient-to-br from-emerald-500 via-teal-500 to-cyan-500"}

\* pieces of CSS text: declarations, well formed and not
CssPieces ==
  {"color: red", "color:blue", "background-color: #fff !important", "not-a-pair",
   "", " : x", "y: ", "height: 900px", "\nmin-height: 10px", "a:b:c !IMPORTANT",
   "__proto__: x", "-webkit-x: 1"}

\* what is typed into the Custom CSS field of the background: one piece, two
\* pieces with a semicolon between them, and the same with semicolons at the end
CssTexts ==
  CssPieces \cup {p \o ";" \o q : p, q \in CssPieces} \cup {p \o ";;" : p \in CssPieces}

\* what is typed into the Custom CSS field of a spotlight
SpotlightCssTexts ==
  {"opacity: .2;\nmix-blend-mode: hue !important"}

\* menuOpenId when no menu is open (null)
Null == 0

\* ------------------------------------------------------------------- state
Init ==
  /\ spotlights = InitialSpotlights
  /\ prev = InitialSpotlights
  /\ lastOp = NoOp
  /\ removed = {}
  /\ background = InitialBackground
  /\ blendMode = "absolute"
  /\ menuOpenId = Null

\* id of the spotlight whose mirror copy the call is now copying again:
\* the preceding call was a mirror that created the spotlight named by id
mirrorOrigin(id) ==
  IF /\ lastOp.op = "mirror"
     /\ Len(spotlights) = Len(prev) + 1
     /\ spotlights[Len(spotlights)].id = id
  THEN lastOp.id ELSE 0

addSpotlight ==
  /\ Len(spotlights) < MaxSpots
  /\ addNewId(spotlights) <= MaxId
  /\ spotlights' = addResult(spotlights)
  /\ prev' = spotlights
  /\ lastOp' = [NoOp EXCEPT !.op = "add"]
  /\ UNCHANGED removed

duplicateSpotlight(id) ==
  /\ Len(spotlights) < MaxSpots
  /\ copyNewId(spotlights) <= MaxId
  /\ spotlights' = duplicateResult(spotlights, id)
  /\ prev' = spotlights
  /\ lastOp' = [NoOp EXCEPT !.op = "duplicate", !.id = id]
  /\ UNCHANGED removed

mirrorDuplicateSpotlight(id) ==
  /\ Len(spotlights) < MaxSpots
  /\ copyNewId(spotlights) <= MaxId
  /\ spotlights' = mirrorResult(spotlights, id)
  /\ prev' = spotlights
  /\ lastOp' = [NoOp EXCEPT !.op = "mirror", !.id = id, !.origin = mirrorOrigin(id)]
  /\ UNCHANGED removed

removeSpotlight(id) ==
  /\ spotlights' = removeResult(spotlights, id)
  /\ prev' = spotlights
  /\ lastOp' = [NoOp EXCEPT !.op = "remove", !.id = id]
  /\ UNCHANGED removed

\* removeSpotlight, with the ids it takes out of the list added to removed
removeSpotlightLogged(id) ==
  /\ spotlights' = removeResult(spotlights, id)
  /\ prev' = spotlights
  /\ lastOp' = [NoOp EXCEPT !.op = "remove", !.id = id]
  /\ removed' = removed \cup (Ids(spotlights) \ Ids(spotlights'))

updateSpotlight(id, key, value) ==
  /\ spotlights' = updateResult(spotlights, id, key, value)
  /\ prev' = spotlights
  /\ lastOp' = [NoOp EXCEPT !.op = "update", !.id = id, !.key = key, !.value = value]
  /\ UNCHANGED removed

\* the calls of Next and NextIds leave the rest of the App state alone
Next ==
  /\ \/ addSpotlight
     \/ \E id \in IdArgs : duplicateSpotlight(id)
     \/ \E id \in IdArgs : mirrorDuplicateSpotlight(id)
     \/ \E id \in IdArgs : removeSpotlight(id)
     \/ \E id \in IdArgs, kv \in UpdateInputs : updateSpotlight(id, kv[1], kv[2])
  /\ UNCHANGED <<background, blendMode, menuOpenId>>

Spec == Init /\ [][Next]_vars

\* the four calls that create and remove spotlights, with removals logged
NextIds ==
  /\ \/ addSpotlight
     \/ \E id \in IdArgs : duplicateSpotlight(id)
     \/ \E id \in IdArgs : mirrorDuplicateSpotlight(id)
     \/ \E id \in IdArgs : removeSpotlightLogged(id)
  /\ UNCHANGED <<background, blendMode, menuOpenId>>

SpecIds == Init /\ [][NextIds]_vars

\* ------------------------------------------------------ background controls
\* Mode select: setBackground({ ...background, type })
selectBackgroundMode(type) ==
  /\ background' = Put(background, "type", type)
  /\ UNCHANGED <<spotlights, prev, lastOp, removed, blendMode, menuOpenId>>

\* preset button: setBackground(p.value)
clickPreset(label) ==
  /\ background' = backgroundPresets[label]
  /\ UNCHANGED <<spotlights, prev, lastOp, removed, blendMode, menuOpenId>>

\* color picker, rendered in the Solid Color mode
pickBackgroundColor(color) ==
  /\ background.type = "solid"
  /\ background' = Put(background, "color", color)
  /\ UNCHANGED <<spotlights, prev, lastOp, removed, blendMode, menuOpenId>>

\* Tailwind Classes field, rendered in the Custom Tailwind mode
editTailwindClass(text) ==
  /\ background.type = "customTailwind"
  /\ background' = Put(background, "tailwindClass", text)
  /\ UNCHANGED <<spotlights, prev, lastOp, removed, blendMode, menuOpenId>>

\* Custom CSS field, rendered in the Custom CSS mode
editBackgroundCss(text) ==
  /\ background.type = "customCss"
  /\ background' = Put(background, "cssText", text)
  /\ UNCHANGED <<spotlights, prev, lastOp, removed, blendMode, menuOpenId>>

NextBackground ==
  \/ \E type \in BackgroundTypes : selectBackgroundMode(type)
  \/ \E label \in DOMAIN backgroundPresets : clickPreset(label)
  \/ \E color \in BackgroundColors : pickBackgroundColor(color)
  \/ \E text \in TailwindClasses : editTailwindClass(text)
  \/ \E text \in CssTexts : editBackgroundCss(text)

SpecBackground == Init /\ [][NextBackground]_vars

\* --------------------------------------------------------- shape controls
\* Render Mode buttons
setBlendMode(mode) ==
  /\ blendMode' = mode
  /\ UNCHANGED <<spotlights, prev, lastOp, removed, background, menuOpenId>>

\* Fill Source select of the spotlight id: updateSpotlight(s.id, "source", ..)
selectSource(id, source) ==
  /\ spotlights' = updateResult(spotlights, id, "source", source)
  /\ UNCHANGED <<prev, lastOp, removed, background, blendMode, menuOpenId>>

\* Custom CSS field of the spotlight id, rendered when its source is css:
\* updateSpotlight(s.id, "cssText", ..)
editSpotlightCss(id, text) ==
  /\ \E i \in DOMAIN spotlights : spotlights[i].id = id /\ spotlights[i].source = "css"
  /\ spotlights' = updateResult(spotlights, id, "cssText", text)
  /\ UNCHANGED <<prev, lastOp, removed, background, blendMode, menuOpenId>>

\* "Duplicate (mirror)" chosen from the menu of the spotlight id, the menu
\* opened and closed again: mirrorDuplicateSpotlight(s.id)
chooseMirror(id) ==
  /\ Len(spotlights) < MaxSpots
  /\ copyNewId(spotlights) <= MaxId
  /\ spotlights' = mirrorResult(spotlights, id)
  /\ UNCHANGED <<prev, lastOp, removed, background, blendMode, menuOpenId>>

\* the controls that decide what the shapes of the preview look like
NextShapes ==
  \/ \E mode \in {"absolute", "blend"} : setBlendMode(mode)
  \/ \E id \in Ids(spotlights), source \in Sources : selectSource(id, source)
  \/ \E id \in Ids(spotlights), text \in SpotlightCssTexts : editSpotlightCss(id, text)
  \/ \E id \in Ids(spotlights) : chooseMirror(id)

SpecShapes == Init /\ [][NextShapes]_vars

\* ------------------------------------------------------------------ session
\* spotlights added and removed, presets clicked and the render mode set
NextCode ==
  \/ addSpotlight /\ UNCHANGED <<background, blendMode, menuOpenId>>
  \/ \E id \in Ids(spotlights) :
       removeSpotlight(id) /\ UNCHANGED <<background, blendMode, menuOpenId>>
  \/ \E label \in DOMAIN backgroundPresets : clickPreset(label)
  \/ \E mode \in {"absolute", "blend"} : setBlendMode(mode)

SpecCode == Init /\ [][NextCode]_vars

\* ----------------------------------------------------------- list controls
\* The handlers run under React 18 ("use client"): React listens at its root
\* container, so a click whose handler calls e.stopPropagation() does not
\* reach the click listener the effect puts on document.

\* the Add button with the click kept from the document
clickAddStopped ==
  /\ addSpotlight
  /\ UNCHANGED <<background, blendMode, menuOpenId>>

\* Add button: addSpotlight; the click goes on to the document, where the
\* listener the effect added while a menu is open closes the menu
clickAdd ==
  /\ addSpotlight
  /\ menuOpenId' = Null
  /\ UNCHANGED <<background, blendMode>>

\* menu button of the spotlight id: toggles its menu, stops the click
clickMenuButton(id) ==
  /\ menuOpenId' = IF menuOpenId = id THEN Null ELSE id
  /\ prev' = spotlights
  /\ lastOp' = [NoOp EXCEPT !.op = "menu", !.id = id]
  /\ UNCHANGED <<spotlights, removed, background, blendMode>>

\* "Duplicate here", rendered for the spotlight whose menu is open
clickDuplicateItem(id) ==
  /\ menuOpenId = id
  /\ duplicateSpotlight(id)
  /\ menuOpenId' = Null
  /\ UNCHANGED <<background, blendMode>>

\* "Duplicate (mirror)", rendered for the spotlight whose menu is open
clickMirrorItem(id) ==
  /\ menuOpenId = id
  /\ mirrorDuplicateSpotlight(id)
  /\ menuOpenId' = Null
  /\ UNCHANGED <<background, blendMode>>

\* remove button of the spotlight id, disabled while the list has one entry:
\* removeSpotlight, the click stopped
clickRemoveButton(id) ==
  /\ Len(spotlights) # 1
  /\ removeSpotlightLogged(id)
  /\ UNCHANGED <<background, blendMode, menuOpenId>>

\* a click that reaches the document, or the Escape key, while a menu is open
dismissMenu ==
  /\ menuOpenId # Null
  /\ menuOpenId' = Null
  /\ prev' = spotlights
  /\ lastOp' = [NoOp EXCEPT !.op = "dismiss"]
  /\ UNCHANGED <<spotlights, removed, background, blendMode>>

NextUI ==
  \/ clickAdd
  \/ \E id \in Ids(spotlights) : clickMenuButton(id)
  \/ \E id \in Ids(spotlights) : clickDuplicateItem(id)
  \/ \E id \in Ids(spotlights) : clickMirrorItem(id)
  \/ \E id \in Ids(spotlights) : clickRemoveButton(id)
  \/ dismissMenu

SpecUI == Init /\ [][NextUI]_vars

\* ---------------------------------------------------- vocabulary of claims
Fields ==
  {"id", "source", "fill", "fillOpacity", "blurIntensity", "width", "height",
   "x", "y", "rotation", "opacity", "gradientClass", "cssText", "flipX"}

Last(list) == list[Len(list)]

\* the last call named an id that a spotlight of the list it ran on has
Found == lastOp.id \in Ids(prev)

\* the spotlight the last call named
Source == prev[FindIndex(prev, lastOp.id)]

\* the last call put exactly one entry after the unchanged old entries
AppendedOne ==
  /\ Len(spotlights) = Len(prev) + 1
  /\ \A i \in DOMAIN prev : spotlights[i] = prev[i]

\* n is one more than the largest id of list
IsMaxPlusOne(n, list) ==
  /\ \A k \in Ids(list) : n > k
  /\ (n - 1) \in Ids(list)

\* v limited to the range -20 .. 120
Limited(v) == IF v < -20 THEN -20 ELSE IF v > 120 THEN 120 ELSE v

\* a and b agree on every field outside the set changed
SameExcept(a, b, changed) == \A f \in Fields \ changed : a[f] = b[f]

TypeOK ==
  /\ Len(spotlights) <= MaxSpots
  /\ removed \subseteq 1 .. MaxId

\* ------------------------------------------------------------------ claims

\* C1: after any sequence of addSpotlight, duplicateSpotlight,
\* mirrorDuplicateSpotlight and removeSpotlight calls with arbitrary id
\* arguments, the ids of the spotlights in the list are pairwise distinct.
IdsDistinct ==
  \A i, j \in DOMAIN spotlights : i # j => spotlights[i].id # spotlights[j].id

\* a copy has just been created in a list that a removal left a gap in
IdsDistinctWitness ==
  /\ lastOp.op \in {"duplicate", "mirror"}
  /\ Len(spotlights) = Len(prev) + 1
  /\ MissingId(prev) < Last(spotlights).id
  /\ Len(spotlights) = 3

\* C2: the list always has at least one entry, and removeSpotlight(id) on a
\* list of exactly one entry leaves the list as it was.
NonEmpty ==
  /\ Len(spotlights) >= 1
  /\ (lastOp.op = "remove" /\ Len(prev) = 1) => spotlights = prev

\* removeSpotlight was called with the id of the only spotlight
NonEmptyWitness ==
  /\ lastOp.op = "remove"
  /\ Len(prev) = 1
  /\ Found

\* C3: an id that removeSpotlight has removed is never given to a spotlight
\* created by a later addSpotlight, duplicateSpotlight or
\* mirrorDuplicateSpotlight call (removals are logged under SpecIds).
NoIdReuse ==
  (lastOp.op \in {"add", "duplicate", "mirror"} /\ Len(spotlights) = Len(prev) + 1)
    => Last(spotlights).id \notin removed

\* C4: mirrorDuplicateSpotlight(id) on an existing id appends exactly one
\* entry and leaves the old entries as they were; the new entry has
\* id = max id + 1, x = 100 - s.x limited to -20 .. 120, flipX negated, and
\* every other field equal to the source's.  From the initial list,
\* mirrorDuplicateSpotlight(1) gives three spotlights, the last with id 3
\* and flipX true.
MirrorAppends ==
  /\ (lastOp.op = "mirror" /\ Found) =>
       /\ AppendedOne
       /\ IsMaxPlusOne(Last(spotlights).id, prev)
       /\ Last(spotlights).x = Limited(100 - Source.x)
       /\ Last(spotlights).flipX = ~Source.flipX
       /\ SameExcept(Last(spotlights), Source, {"id", "x", "flipX"})
  /\ (lastOp.op = "mirror" /\ lastOp.id = 1 /\ prev = InitialSpotlights) =>
       /\ Len(spotlights) = 3
       /\ Last(spotlights).id = 3
       /\ Last(spotlights).flipX = TRUE

\* the mirror copy of a spotlight whose mirrored x had to be limited
MirrorAppendsWitness ==
  /\ lastOp.op = "mirror"
  /\ Found
  /\ 100 - Source.x < -20
  /\ Len(prev) >= 2

\* C5: the mirror copy of a mirror copy has the flipX of the original and
\* x = 100 - (100 - x limited to -20 .. 120) limited to -20 .. 120, which
\* is the original x exactly when the original x lies in -20 .. 120.
MirrorTwice ==
  (lastOp.op = "mirror" /\ lastOp.origin # 0) =>
    LET original == prev[FindIndex(prev, lastOp.origin)]
        second == Last(spotlights)
    IN /\ Len(spotlights) = Len(prev) + 1
       /\ second.flipX = original.flipX
       /\ second.x = Limited(100 - Limited(100 - original.x))
       /\ (second.x = original.x) <=> (original.x >= -20 /\ original.x <= 120)

\* a mirror copy was mirrored again and the original lay outside -20 .. 120
MirrorTwiceWitness ==
  /\ lastOp.op = "mirror"
  /\ lastOp.origin # 0
  /\ prev[FindIndex(prev, lastOp.origin)].x > 120

\* C6: duplicateSpotlight(id) on an existing id appends exactly one entry
\* and leaves the old entries as they were; the new entry has
\* id = max id + 1, x = s.x + 10, y = s.y + 10 and every other field,
\* flipX included, equal to the source's.
DuplicateAppends ==
  (lastOp.op = "duplicate" /\ Found) =>
    /\ AppendedOne
    /\ IsMaxPlusOne(Last(spotlights).id, prev)
    /\ Last(spotlights).x = Source.x + 10
    /\ Last(spotlights).y = Source.y + 10
    /\ SameExcept(Last(spotlights), Source, {"id", "x", "y"})

\* the copy of a mirrored spotlight: flipX true is carried over
DuplicateAppendsWitness ==
  /\ lastOp.op = "duplicate"
  /\ Found
  /\ Source.flipX
  /\ Last(spotlights).id # Source.id + 1

\* C7: addSpotlight() appends exactly one entry and leaves the old entries
\* as they were; the new entry has id = max id + 1 (1 for an empty list)
\* and the fixed defaults, whatever the state.
AddAppends ==
  /\ lastOp.op = "add" =>
       /\ AppendedOne
       /\ IsMaxPlusOne(Last(spotlights).id, prev)
       /\ LET n == Last(spotlights)
          IN /\ n.source = "color" /\ n.fill = "#ffffff" /\ n.fillOpacity = 30
             /\ n.blurIntensity = 151 /\ n.width = 400 /\ n.height = 400
             /\ n.x = 50 /\ n.y = 50 /\ n.rotation = 0 /\ n.opacity = 70
             /\ n.flipX = FALSE
  /\ addNewId(<< >>) = 1

\* a spotlight added to a list whose entries had all been changed or copied
AddAppendsWitness ==
  /\ lastOp.op = "add"
  /\ Len(prev) = 2
  /\ prev[1].x = 120
  /\ prev[2].flipX

\* C8: removeSpotlight(id) on a list of at least two entries that holds the
\* id gives the list without that one entry: one entry fewer, the others
\* with their values and in their order.
RemoveOne ==
  (lastOp.op = "remove" /\ Len(prev) >= 2 /\ Found) =>
    /\ Len(spotlights) = Len(prev) - 1
    /\ \E i \in DOMAIN prev :
         /\ prev[i].id = lastOp.id
         /\ \A j \in 1 .. (i - 1) : spotlights[j] = prev[j]
         /\ \A j \in (i + 1) .. Len(prev) : spotlights[j - 1] = prev[j]

\* the middle one of three spotlights was removed
RemoveOneWitness ==
  /\ lastOp.op = "remove"
  /\ Len(prev) = 3
  /\ prev[2].id = lastOp.id

\* the frame of one updateSpotlight(id, key, value) call from before to after:
\* one entry has the id; it is the old entry with the field replaced, and
\* every other entry is the old entry
UpdateFrame(before, after, id, key, value) ==
  /\ Len(after) = Len(before)
  /\ \A i, j \in DOMAIN before :
       (before[i].id = id /\ before[j].id = id) => i = j
  /\ \A i \in DOMAIN before :
       IF before[i].id = id
       THEN /\ after[i][key] = value
            /\ after[i] = [before[i] EXCEPT ![key] = after[i][key]]
       ELSE after[i] = before[i]

\* C9: updateSpotlight(id, field, value) on an existing id replaces only the
\* named field of the one entry with that id; length, order, the other
\* entries and the other fields of that entry stay as they were.
UpdateOnlyField ==
  (lastOp.op = "update" /\ Found) =>
    /\ UpdateFrame(prev, spotlights, lastOp.id, lastOp.key, lastOp.value)
    \* the same call with the key and value of each of the other controls
    /\ \A kv \in ControlInputs :
         UpdateFrame(prev, updateResult(prev, lastOp.id, kv[1], kv[2]),
                     lastOp.id, kv[1], kv[2])

\* x of the second of three spotlights was changed
UpdateOnlyFieldWitness ==
  /\ lastOp.op = "update"
  /\ Len(prev) = 3
  /\ prev[2].id = lastOp.id
  /\ spotlights[2].x # prev[2].x

\* C10: duplicateSpotlight, mirrorDuplicateSpotlight, removeSpotlight and
\* updateSpotlight called with an id no spotlight has leave the list as it
\* was: same entries, same order, same values.
MissingIdNoOp ==
  /\ (lastOp.op \in {"duplicate", "mirror", "remove", "update"} /\ ~Found) =>
       spotlights = prev
  \* the same updateSpotlight call with the key and value of each other control
  /\ (lastOp.op = "update" /\ ~Found) =>
       \A kv \in ControlInputs :
         updateResult(prev, lastOp.id, kv[1], kv[2]) = prev

\* a call named the id of a spotlight that had been removed before
MissingIdNoOpWitness ==
  /\ lastOp.op \in {"duplicate", "mirror", "remove", "update"}
  /\ ~Found
  /\ \E k \in Ids(prev) : lastOp.id < k
  /\ Len(prev) >= 2

\* the list with the entry p[k] of the old list at position k
Permuted(list, p) == [k \in DOMAIN list |-> list[p[k]]]

\* C11: in every reachable state no two solid-fill shapes of the preview have
\* the same filter id, and in the preview of the same list in any other order
\* every spotlight has the filter id it has now, whatever its new position.
FilterIdOfSpotlight ==
  LET now == shapes(spotlights, blendMode)
  IN /\ \A i, j \in DOMAIN now :
          (i # j /\ now[i].element = "svg" /\ now[j].element = "svg")
            => now[i].filterId # now[j].filterId
     /\ \A p \in Permutations(DOMAIN spotlights) :
          LET moved == shapes(Permuted(spotlights, p), blendMode)
          IN \A k \in DOMAIN moved :
               moved[k].element = "svg" => moved[k].filterId = now[p[k]].filterId

\* two or more solid-fill spotlights, one of them at a position that is not
\* its id, which happens once a spotlight has been removed
FilterIdOfSpotlightWitness ==
  /\ Len(spotlights) >= 2
  /\ \A i \in DOMAIN spotlights : spotlights[i].source = "color"
  /\ \E i \in DOMAIN spotlights : spotlights[i].id # i
  /\ removed # {}

\* C12: when background.type is solid the style of the preview background
\* is a flat fill with background.color, and a flat white fill when the
\* background has no color.
SolidFill ==
  background.type = "solid" =>
    previewBgStyle(background) =
      [backgroundColor |->
         IF "color" \in DOMAIN background THEN background.color ELSE "#ffffff"]

\* the style properties that size the container
SizingKeys == {"width", "height", "minWidth", "minHeight", "maxWidth", "maxHeight"}

\* C13: when background.type is customCss the style of the preview
\* background is what parseInlineCss gives for background.cssText without
\* any property that sizes the container, while the style of a css spotlight
\* has every property parsed from its cssText, none taken out.
BackgroundCssUnsized ==
  /\ background.type = "customCss" =>
       LET parsed == parseInlineCss(Get(background, "cssText"))
       IN previewBgStyle(background) =
            [k \in DOMAIN parsed \ SizingKeys |-> parsed[k]]
  /\ \A i \in DOMAIN spotlights :
       spotlights[i].source = "css" =>
         LET parsed == parseInlineCss(spotlights[i].cssText)
             style == renderItem(spotlights[i], blendMode).style
         IN \A k \in DOMAIN parsed : k \in DOMAIN style /\ style[k] = parsed[k]

\* the number a decimal text stands for
RECURSIVE ParseDigits(_)
ParseDigits(t) ==
  IF t = "" THEN 0
  ELSE 10 * ParseDigits(SubSeq(t, 1, Len(t) - 1))
       + (IndexOf("0123456789", CharAt(t, Len(t))) - 1)

ParseNumber(t) == IF Head(t) = "-" THEN 0 - ParseDigits(Tail(t)) ELSE ParseDigits(t)

\* the text t is a number followed by the unit; the number it gives
EndsWith(t, unit) ==
  Len(t) > Len(unit) /\ SubSeq(t, Len(t) - Len(unit) + 1, Len(t)) = unit

Amount(t, unit) == ParseNumber(SubSeq(t, 1, Len(t) - Len(unit)))

\* the style properties that place and size a shape
GeometryKeys == {"width", "height", "left", "top", "transform"}

\* the spotlight s leaves the geometry to the editor: it is not a css
\* spotlight whose cssText names a geometry property
KeepsGeometry(s) ==
  s.source = "css" => DOMAIN parseInlineCss(s.cssText) \cap GeometryKeys = {}

\* C14: for every spotlight of every source (a css spotlight as long as its
\* cssText names no geometry property) the shape has width and height in px
\* equal to the spotlight's, left and top in % equal to x and y, and a
\* transform of the centering translate, then scaleX(-1) exactly when flipX
\* is set, then the rotation in degrees.
GeometryProjected ==
  \A i \in DOMAIN spotlights :
    LET s == spotlights[i]
        style == renderItem(s, blendMode).style
    IN KeepsGeometry(s) =>
         /\ EndsWith(style.width, "px") /\ Amount(style.width, "px") = s.width
         /\ EndsWith(style.height, "px") /\ Amount(style.height, "px") = s.height
         /\ EndsWith(style.left, "%") /\ Amount(style.left, "%") = s.x
         /\ EndsWith(style.top, "%") /\ Amount(style.top, "%") = s.y
         /\ LET parts == split(style.transform, " ")
                turn == parts[Len(parts)]
            IN /\ parts[1] = "translate(-50%," /\ parts[2] = "-50%)"
               /\ Len(parts) = IF s.flipX THEN 4 ELSE 3
               /\ s.flipX => parts[3] = "scaleX(-1)"
               /\ SubSeq(turn, 1, 7) = "rotate("
               /\ EndsWith(turn, "deg)")
               /\ ParseNumber(SubSeq(turn, 8, Len(turn) - 4)) = s.rotation

\* shapes of all three sources at once, a mirrored and rotated one among them
GeometryProjectedWitness ==
  /\ \A src \in Sources : \E i \in DOMAIN spotlights : spotlights[i].source = src
  /\ \E i \in DOMAIN spotlights :
       /\ spotlights[i].flipX /\ spotlights[i].rotation # 0
       /\ spotlights[i].source = "css" /\ spotlights[i].cssText # ""

\* the shape of s is the same in both render modes but for mixBlendMode
Unblended(item) == [item EXCEPT !.style = Delete(item.style, "mixBlendMode")]

SameButBlend(s) ==
  Unblended(renderItem(s, "absolute")) = Unblended(renderItem(s, "blend"))

\* C15 as stated: every shape, whatever its source, has mixBlendMode screen
\* when blendMode is blend and no mixBlendMode at all when it is absolute,
\* and the render mode changes nothing else in a shape.
BlendEverywhere ==
  \A i \in DOMAIN spotlights :
    LET style == renderItem(spotlights[i], blendMode).style
    IN /\ IF blendMode = "blend"
          THEN "mixBlendMode" \in DOMAIN style /\ style.mixBlendMode = "screen"
          ELSE "mixBlendMode" \notin DOMAIN style
       /\ SameButBlend(spotlights[i])

\* the css spotlight s sets mix-blend-mode itself
SetsOwnBlend(s) ==
  s.source = "css" /\ "mixBlendMode" \in DOMAIN parseInlineCss(s.cssText)

\* C15, amended: every shape whose spotlight is not a css spotlight that
\* sets mix-blend-mode in its cssText has mixBlendMode screen when blendMode
\* is blend and no mixBlendMode when it is absolute; a css spotlight that
\* sets mix-blend-mode keeps its own value in both modes; and the render
\* mode changes nothing else in a shape.
BlendUnlessOwn ==
  \A i \in DOMAIN spotlights :
    LET s == spotlights[i]
        style == renderItem(s, blendMode).style
    IN /\ IF SetsOwnBlend(s)
          THEN style.mixBlendMode = parseInlineCss(s.cssText).mixBlendMode
          ELSE IF blendMode = "blend"
               THEN "mixBlendMode" \in DOMAIN style /\ style.mixBlendMode = "screen"
               ELSE "mixBlendMode" \notin DOMAIN style
       /\ SameButBlend(s)

\* blend mode on, with a css spotlight that sets its own blend next to a
\* gradient-class and a solid-fill spotlight
BlendUnlessOwnWitness ==
  /\ blendMode = "blend"
  /\ \E i \in DOMAIN spotlights : SetsOwnBlend(spotlights[i])
  /\ \E i \in DOMAIN spotlights : spotlights[i].source = "tailwind"
  /\ \E i \in DOMAIN spotlights : spotlights[i].source = "color"

\* C16: the style of a css spotlight has the properties of the computed
\* style (the one a gradient-class shape of the same spotlight gets) and
\* those parsed from cssText; a property parsed from cssText has the user's
\* value, also when the computed style has it too, and every other property
\* has its computed value.
CssMergedOnTop ==
  \A i \in DOMAIN spotlights :
    spotlights[i].source = "css" =>
      LET s == spotlights[i]
          style == renderItem(s, blendMode).style
          computed == renderItem([s EXCEPT !.source = "tailwind"], blendMode).style
          parsed == parseInlineCss(s.cssText)
      IN /\ DOMAIN style = DOMAIN computed \cup DOMAIN parsed
         /\ \A k \in DOMAIN parsed : style[k] = parsed[k]
         /\ \A k \in DOMAIN computed \ DOMAIN parsed : style[k] = computed[k]

\* a css spotlight whose cssText names a computed property with another
\* value, and a property the computed style does not have
CssMergedOnTopWitness ==
  \E i \in DOMAIN spotlights :
    LET s == spotlights[i]
        computed == renderItem([s EXCEPT !.source = "tailwind"], blendMode).style
        parsed == parseInlineCss(s.cssText)
    IN /\ s.source = "css"
       /\ \E k \in DOMAIN parsed \cap DOMAIN computed : parsed[k] # computed[k]
       /\ DOMAIN parsed \ DOMAIN computed # {}
       /\ DOMAIN computed \ DOMAIN parsed # {}

\* C17: in every reachable state the useMemo callback run anew gives the
\* string it gave on the first render: spotlights added and removed, presets
\* clicked and the render mode set do not change the generated code.
CodeFixed == generateCode(spotlights, background, blendMode) = generatedCode

\* the list, the background and the render mode all differ from the start
CodeFixedWitness ==
  /\ Len(spotlights) # Len(InitialSpotlights)
  /\ background # InitialBackground
  /\ blendMode = "blend"

\* position of the first ':' of the piece, 0 if it has none
FirstColon(piece) == IndexOf(piece, ":")

\* the trimmed property name and the cleaned value of a piece with a ':'
NameOf(piece) == trim(SubSeq(piece, 1, FirstColon(piece) - 1))

ValueOf(piece) ==
  trim(removeImportant(SubSeq(piece, FirstColon(piece) + 1, Len(piece))))

\* a declaration that contributes: it has a ':', a name and a value
WellFormed(piece) ==
  FirstColon(piece) # 0 /\ NameOf(piece) # "" /\ ValueOf(piece) # ""

\* the text of the Custom CSS field, Undefined while nothing was typed
TypedCss == Get(background, "cssText")

\* the ';'-separated pieces of the typed text
TypedPieces == split(IF TypedCss = Undefined THEN "" ELSE TypedCss, ";")

\* inputs with the mapping the parser has to give for them
ParseExamples ==
  {<<"background-color: #fff !important;;", [backgroundColor |-> "#fff"]>>,
   <<"not-a-pair", EmptyObject>>,
   <<"", EmptyObject>>,
   <<"color: red", [color |-> "red"]>>,
   <<"a:b:c !IMPORTANT;-webkit-x: 1", [a |-> "b:c", WebkitX |-> "1"]>>}

PositionsInRange ==
  \A i \in DOMAIN spotlights :
    /\ XSliderMin <= spotlights[i].x /\ spotlights[i].x <= XSliderMax
    /\ XSliderMin <= spotlights[i].y /\ spotlights[i].y <= XSliderMax

Created ==
  lastOp.op \in {"add", "duplicate", "mirror"} /\ Len(spotlights) = Len(prev) + 1

====
